---- MODULE Spec2Model ----
(***************************************************************************)
(* Membership club bot (Telegraf + Express + PostgreSQL).                  *)
(*                                                                         *)
(* The repository holds three builds of the bot:                           *)
(*   - the screening build (src/unnamed/part_000 lines 1-274): code        *)
(*     allocator, registration, screening engine;                          *)
(*   - the code-only build (lines 276-499) and src/server.js: the same     *)
(*     allocator with another fallback expression;                         *)
(*   - the invitation-code build (lines 501-750): /register CODE,          *)
(*     /gencode, /revoke.                                                  *)
(*                                                                         *)
(* Every awaited storage statement of a handler is one step, so handlers   *)
(* interleave at the awaits as they do on the Node event loop.  PostgreSQL *)
(* (READ COMMITTED) supplies row locks, PRIMARY KEY and UNIQUE.            *)
(*                                                                         *)
(* Strings are sequences of character codes.                               *)
(***************************************************************************)
EXTENDS Integers, Sequences, FiniteSets, TLC

VARIABLES
  membership_codes,  \* invitation build: code -> row of membership_codes
  inv_members,       \* invitation build: tg_id -> row of members
  reg,               \* invitation build: the /register handler of each request slot
  now,               \* invitation build: the wall clock, in minutes
  members,           \* screening build: tg_id -> row of members
  alloc,             \* screening build: the registration / my-code handler of each slot
  initdb,            \* screening build: the startup bulk repair of initDb
  screening_sessions,  \* screening build: tg_id -> row of screening_sessions
  screening_answers,   \* screening build: the rows of screening_answers, by id
  awaitingText,      \* screening build: the awaitingText map
  scr,               \* screening build: the screening handler of each request slot
  sent,              \* screening build: questions sent so far, per member (history)
  events,            \* screening build: updates received so far
  faults,            \* storage failures injected so far
  calc               \* pure functions: inputs drawn by Init, results of applying them

invVars == <<membership_codes, inv_members, reg, now>>
allocVars == <<members, alloc, initdb>>
scrVars == <<screening_sessions, screening_answers, awaitingText, scr, sent, events>>

vars == <<invVars, allocVars, scrVars, faults, calc>>

(***************************************************************************)
(* Bounds                                                                  *)
(***************************************************************************)
MaxGenDraw == 0   \* genCode draws alphabet indices 0..MaxGenDraw
MaxUses == 2      \* /gencode uses argument ranges over -1..MaxUses
MaxMins == 1      \* /gencode minutes argument ranges over 0..MaxMins
MaxTime == 2      \* the clock stops at MaxTime
MaxFaults == 1    \* storage failures injected per run
MaxScore == 45    \* scores handed to the grade function: 0..MaxScore
MaxLetterDraw == 1  \* allocator: crypto.randomInt(26) yields 0..MaxLetterDraw
MaxDigitDraw == 0   \* allocator: crypto.randomInt(10) yields 0..MaxDigitDraw
NumQuestions == 2   \* screening: rows of screening_questions, ids 1..NumQuestions
MaxOption == 1      \* screening: the options of a question have indices 0..MaxOption
MaxEvents == 4      \* screening: updates handled per run

(***************************************************************************)
(* Program constants                                                       *)
(***************************************************************************)
GenCodeLen == 10
LetterCount == 26
DigitCount == 10
MaxAttempts == 6
GradeA == 40
GradeB == 32
GradeC == 25

Users == {1, 2}
Procs == {1, 2}

\* ADMIN_IDS of the environment, split and trimmed: a set of strings.
ADMIN_SET == {"2"}

\* ctx.from.id.toString()
IdToString(id) == CASE id = 1 -> "1" [] id = 2 -> "2" [] OTHER -> "0"

isAdmin(id) == IdToString(id) \in ADMIN_SET

Max(a, b) == IF a >= b THEN a ELSE b

\* String.prototype.toUpperCase on ASCII
ToUpperCase(s) == [i \in DOMAIN s |-> IF s[i] \in 97..122 THEN s[i] - 32 ELSE s[i]]

\* what a user types in lower case
ToLowerCase(s) == [i \in DOMAIN s |-> IF s[i] \in 65..90 THEN s[i] + 32 ELSE s[i]]

(***************************************************************************)
(* Pure functions: grade thresholds and the code format                    *)
(***************************************************************************)

\* 'ABCDEFGHJKLMNPQRSTUVWXYZ23456789'
abc == <<65, 66, 67, 68, 69, 70, 71, 72, 74, 75, 76, 77, 78, 80, 81, 82, 83,
         84, 85, 86, 87, 88, 89, 90, 50, 51, 52, 53, 54, 55, 56, 57>>

\* genCode(len): draws[i] is Math.floor(Math.random() * abc.length)
genCode(draws) == [i \in 1..Len(draws) |-> abc[draws[i] + 1]]

GradeSwappedBC(score) ==
  IF score >= GradeA THEN "A"
  ELSE IF score >= GradeB THEN "C"
  ELSE IF score >= GradeC THEN "B"
  ELSE "D"

\* askQuestion: if (score>=40) A else if (score>=32) B else if (score>=25) C else D
Grade(score) ==
  IF score >= GradeA THEN "A"
  ELSE IF score >= GradeB THEN "B"
  ELSE IF score >= GradeC THEN "C"
  ELSE "D"

\* String.fromCharCode(65 + crypto.randomInt(26))
randomLetterAZ(r) == <<65 + r>>

\* randomDigits(n): ds holds the n results of crypto.randomInt(10); each is
\* appended as its decimal digit
randomDigits(ds) == [i \in 1..Len(ds) |-> 48 + ds[i]]

\* String.prototype.slice(1)
Slice1(s) == SubSeq(s, 2, Len(s))

\* randomLetterAZ() + randomDigits(6)
randomCodeAZ6(r, ds) == randomLetterAZ(r) \o randomDigits(SubSeq(ds, 1, 6))

FallbackNoSlice(variant, r, ds) ==
  IF variant = "server" THEN randomLetterAZ(r) \o randomDigits(ds)
  ELSE randomCodeAZ6(r, ds)

\* the last line of generateUniqueCode in each build; ds holds 7 digit draws,
\* of which the builds that call randomDigits(6) consume the first 6
Fallback(variant, r, ds) ==
  IF variant = "server" THEN randomLetterAZ(r) \o Slice1(randomDigits(ds))
  ELSE IF variant = "screening" THEN randomCodeAZ6(r, ds)
  ELSE randomLetterAZ(r) \o randomDigits(SubSeq(ds, 1, 6))

\* CODE_REGEX = /^[A-Z][0-9]{6}$/
CODE_REGEX_test(s) ==
  /\ Len(s) = 7
  /\ s[1] \in 65..90
  /\ \A i \in 2..7 : s[i] \in 48..57

Variants == {"screening", "codeonly", "server"}

\* digit draws for the format check: every digit is the least or the greatest
DigitEnds == {0, DigitCount - 1}

NoCalc == [mode |-> "off", score |-> 0, grade |-> "", variant |-> "screening",
           r |-> 0, ds |-> <<>>, code |-> <<>>, path |-> ""]

CalcInit ==
  \/ \E s \in 0..MaxScore :
       calc = [NoCalc EXCEPT !.mode = "grade", !.score = s]
  \/ \E v \in Variants, r \in 0..(LetterCount - 1), ds \in [1..7 -> DigitEnds] :
       calc = [NoCalc EXCEPT !.mode = "code", !.variant = v, !.r = r, !.ds = ds]

\* the finish branch of askQuestion maps the score to the grade
ApplyGrade ==
  /\ calc.mode = "grade"
  /\ calc.grade = ""
  /\ calc' = [calc EXCEPT !.grade = Grade(calc.score)]
  /\ UNCHANGED <<invVars, allocVars, scrVars, faults>>

\* generateUniqueCode returns a checked candidate
ApplyCandidate ==
  /\ calc.mode = "code"
  /\ calc.path = ""
  /\ calc' = [calc EXCEPT !.code = randomCodeAZ6(calc.r, calc.ds), !.path = "checked"]
  /\ UNCHANGED <<invVars, allocVars, scrVars, faults>>

\* generateUniqueCode returns its fallback
ApplyFallback ==
  /\ calc.mode = "code"
  /\ calc.path = ""
  /\ calc' = [calc EXCEPT !.code = Fallback(calc.variant, calc.r, calc.ds),
                          !.path = "fallback"]
  /\ UNCHANGED <<invVars, allocVars, scrVars, faults>>

(***************************************************************************)
(* Invitation-code build (src/unnamed/part_000 lines 501-750)              *)
(***************************************************************************)

\* the index draws of one genCode(10) call, here one index repeated
GenDraws == {[i \in 1..GenCodeLen |-> d] : d \in 0..MaxGenDraw}

\* the codes /gencode can mint within the bounds
CodeSpace == {genCode(d) : d \in GenDraws}

\* the argument of /register and /revoke as typed: absent, or a code in
\* either case
NoArg == <<>>
TextArgs == {NoArg} \cup CodeSpace \cup {ToLowerCase(c) : c \in CodeSpace}

\* expires_at IS NULL
NoExpiry == -1

NoCodeRow == [present |-> FALSE, allowed_uses |-> 0, used_count |-> 0,
              expires_at |-> NoExpiry, active |-> FALSE]

NoInvMember == [present |-> FALSE, code_used |-> <<>>]

\* a request slot with no /register in flight.  used0 is a history field:
\* used_count of the code when the request arrived (-1: no such code).
RegIdle == [pc |-> "idle", uid |-> 1, code |-> <<>>, reply |-> "",
            locked |-> FALSE, ins |-> FALSE, used0 |-> -1]

CodePresent(c) == c \in DOMAIN membership_codes /\ membership_codes[c].present

NoRowLock(c, p) == FALSE

\* SELECT ... FOR UPDATE and UPDATE wait while another transaction holds the
\* row lock of code c
RowLocked(c, p) == \E q \in Procs \ {p} : reg[q].locked /\ reg[q].code = c

\* INSERT INTO members waits while another transaction holds an uncommitted
\* row with the same primary key
InsertBlocked(u, p) == \E q \in Procs \ {p} : reg[q].ins /\ reg[q].uid = u

ValidateNoCapacity(row, t) ==
  IF ~row.active THEN "inactive"
  ELSE IF row.expires_at # NoExpiry /\ row.expires_at < t THEN "expired"
  ELSE "pass"

ValidateNoActive(row, t) ==
  IF row.expires_at # NoExpiry /\ row.expires_at < t THEN "expired"
  ELSE IF row.used_count >= row.allowed_uses THEN "full"
  ELSE "pass"

\* the checks on the locked row, in the order of the code
Validate(row, t) ==
  IF ~row.active THEN "inactive"
  ELSE IF row.expires_at # NoExpiry /\ row.expires_at < t THEN "expired"
  ELSE IF row.used_count >= row.allowed_uses THEN "full"
  ELSE "pass"

InvInit ==
  /\ membership_codes = [c \in CodeSpace |-> NoCodeRow]
  /\ inv_members = [u \in Users |-> NoInvMember]
  /\ reg = [p \in Procs |-> RegIdle]
  /\ now = 0

\* the invitation-code build is not running
InvOff == InvInit

\* /register: parse the argument, BEGIN
RegStart(p, u, arg) ==
  /\ reg[p].pc = "idle"
  /\ LET code == ToUpperCase(arg) IN
       IF code = NoArg
         THEN reg' = [reg EXCEPT ![p] = [RegIdle EXCEPT !.pc = "done", !.uid = u,
                                                        !.reply = "format"]]
         ELSE reg' = [reg EXCEPT ![p] =
                [RegIdle EXCEPT !.pc = "me", !.uid = u, !.code = code,
                   !.used0 = IF CodePresent(code)
                               THEN membership_codes[code].used_count ELSE -1]]
  /\ UNCHANGED <<membership_codes, inv_members, now, faults, calc, allocVars, scrVars>>

\* SELECT tg_id FROM members WHERE tg_id = $1
RegCheckMe(p) ==
  /\ reg[p].pc = "me"
  /\ IF inv_members[reg[p].uid].present
       THEN reg' = [reg EXCEPT ![p].pc = "rollback", ![p].reply = "already"]
       ELSE reg' = [reg EXCEPT ![p].pc = "lock"]
  /\ UNCHANGED <<membership_codes, inv_members, now, faults, calc, allocVars, scrVars>>

\* SELECT ... FROM membership_codes WHERE code = $1 FOR UPDATE, then the
\* checks on the row
RegLock(p) ==
  /\ reg[p].pc = "lock"
  /\ LET c == reg[p].code IN
       IF ~CodePresent(c)
         THEN reg' = [reg EXCEPT ![p].pc = "rollback", ![p].reply = "invalid"]
         ELSE /\ ~RowLocked(c, p)
              /\ LET v == Validate(membership_codes[c], now) IN
                   IF v = "pass"
                     THEN reg' = [reg EXCEPT ![p].pc = "insert", ![p].locked = TRUE]
                     ELSE reg' = [reg EXCEPT ![p].pc = "rollback", ![p].locked = TRUE,
                                             ![p].reply = v]
  /\ UNCHANGED <<membership_codes, inv_members, now, faults, calc, allocVars, scrVars>>

RegInsertAutocommit(p) ==
  /\ reg[p].pc = "insert"
  /\ IF inv_members[reg[p].uid].present
       THEN /\ reg' = [reg EXCEPT ![p].pc = "rollback", ![p].reply = "error"]
            /\ UNCHANGED inv_members
       ELSE /\ reg' = [reg EXCEPT ![p].pc = "update", ![p].ins = TRUE]
            /\ inv_members' = [inv_members EXCEPT ![reg[p].uid] =
                                [present |-> TRUE, code_used |-> reg[p].code]]
  /\ UNCHANGED <<membership_codes, now, faults, calc, allocVars, scrVars>>

\* INSERT INTO members: a committed row with this tg_id is a primary-key
\* conflict, caught by the handler
RegInsert(p) ==
  /\ reg[p].pc = "insert"
  /\ ~InsertBlocked(reg[p].uid, p)
  /\ IF inv_members[reg[p].uid].present
       THEN reg' = [reg EXCEPT ![p].pc = "rollback", ![p].reply = "error"]
       ELSE reg' = [reg EXCEPT ![p].pc = "update", ![p].ins = TRUE]
  /\ UNCHANGED <<membership_codes, inv_members, now, faults, calc, allocVars, scrVars>>

\* UPDATE membership_codes SET used_count = used_count + 1 (uncommitted)
RegUpdate(p) ==
  /\ reg[p].pc = "update"
  /\ reg' = [reg EXCEPT ![p].pc = "commit"]
  /\ UNCHANGED <<membership_codes, inv_members, now, faults, calc, allocVars, scrVars>>

\* COMMIT: the member row and the increment become visible, the lock is
\* released
RegCommit(p) ==
  /\ reg[p].pc = "commit"
  /\ inv_members' = [inv_members EXCEPT
                       ![reg[p].uid] = [present |-> TRUE, code_used |-> reg[p].code]]
  /\ membership_codes' = [membership_codes EXCEPT ![reg[p].code].used_count = @ + 1]
  /\ reg' = [reg EXCEPT ![p].pc = "done", ![p].reply = "ok",
                        ![p].locked = FALSE, ![p].ins = FALSE]
  /\ UNCHANGED <<now, faults, calc, allocVars, scrVars>>

\* a statement of the transaction fails: catch, ROLLBACK, generic reply
RegFail(p) ==
  /\ reg[p].pc \in {"me", "lock", "insert", "update", "commit"}
  /\ faults < MaxFaults
  /\ faults' = faults + 1
  /\ reg' = [reg EXCEPT ![p].pc = "rollback", ![p].reply = "error"]
  /\ UNCHANGED <<membership_codes, inv_members, now, calc, allocVars, scrVars>>

RegRollbackKeepsLock(p) ==
  /\ reg[p].pc = "rollback"
  /\ reg' = [reg EXCEPT ![p].pc = "done"]
  /\ UNCHANGED <<membership_codes, inv_members, now, faults, calc, allocVars, scrVars>>

\* ROLLBACK: uncommitted writes are dropped, the lock is released; then the
\* reply is sent
RegRollback(p) ==
  /\ reg[p].pc = "rollback"
  /\ reg' = [reg EXCEPT ![p].pc = "done", ![p].locked = FALSE, ![p].ins = FALSE]
  /\ UNCHANGED <<membership_codes, inv_members, now, faults, calc, allocVars, scrVars>>

\* finally { client.release() }: the handler is over
RegEnd(p) ==
  /\ reg[p].pc = "done"
  /\ reg' = [reg EXCEPT ![p] = RegIdle]
  /\ UNCHANGED <<membership_codes, inv_members, now, faults, calc, allocVars, scrVars>>

\* /gencode [uses] [minutes]: uses and mins are the parsed integers (0 also
\* stands for a missing or non-numeric argument, which || replaces)
Gencode(u, uses, mins, draws) ==
  /\ isAdmin(u)
  /\ LET code == genCode(draws)
         allowed == Max(1, IF uses = 0 THEN 1 ELSE uses)
         m == Max(0, mins)
     IN  /\ ~membership_codes[code].present   \* else the INSERT fails on the primary key
         /\ membership_codes' = [membership_codes EXCEPT ![code] =
              [present |-> TRUE, allowed_uses |-> allowed, used_count |-> 0,
               expires_at |-> IF m # 0 THEN now + m ELSE NoExpiry,
               active |-> TRUE]]
  /\ UNCHANGED <<inv_members, reg, now, faults, calc, allocVars, scrVars>>

\* /revoke CODE: UPDATE membership_codes SET active = FALSE WHERE code = $1
Revoke(u, arg) ==
  /\ isAdmin(u)
  /\ LET code == ToUpperCase(arg) IN
       /\ code # NoArg
       /\ CodePresent(code)
       /\ ~RowLocked(code, 0)
       /\ membership_codes' = [membership_codes EXCEPT ![code].active = FALSE]
  /\ UNCHANGED <<inv_members, reg, now, faults, calc, allocVars, scrVars>>

\* time passes
Tick ==
  /\ now < MaxTime
  /\ now' = now + 1
  /\ UNCHANGED <<membership_codes, inv_members, reg, faults, calc, allocVars, scrVars>>

InvNext ==
  \/ \E p \in Procs, u \in Users, arg \in TextArgs : RegStart(p, u, arg)
  \/ \E p \in Procs : RegCheckMe(p)
  \/ \E p \in Procs : RegLock(p)
  \/ \E p \in Procs : RegInsert(p)
  \/ \E p \in Procs : RegUpdate(p)
  \/ \E p \in Procs : RegCommit(p)
  \/ \E p \in Procs : RegFail(p)
  \/ \E p \in Procs : RegRollback(p)
  \/ \E p \in Procs : RegEnd(p)
  \/ \E u \in Users, uses \in -1..MaxUses, mins \in 0..MaxMins, d \in GenDraws :
       Gencode(u, uses, mins, d)
  \/ \E u \in Users, arg \in TextArgs : Revoke(u, arg)
  \/ Tick

CalcOff == calc = NoCalc

CalcNext == ApplyGrade \/ ApplyCandidate \/ ApplyFallback

(***************************************************************************)
(* Screening build, code allocator and registration                        *)
(* (src/unnamed/part_000 lines 28-140)                                     *)
(***************************************************************************)

\* my_code IS NULL
NullCode == <<-1>>

NoMember == [present |-> FALSE, my_code |-> NullCode, screening_status |-> "pending"]

\* codes left by an earlier release, which the repair replaces: none or
\* the empty string for member 1, a one-digit code for member 2
LegacyCodes(u) == IF u = 1 THEN {NullCode, <<>>} ELSE {<<48 + u>>}

\* the results of the seven crypto.randomInt(10) calls one candidate may
\* need, here one digit repeated
AllocDigitDraws == {[i \in 1..7 |-> d] : d \in 0..MaxDigitDraw}
AllocLetterDraws == 0..MaxLetterDraw

\* a request slot with no handler in flight.  out is the return statement
\* the call ended with and reply the message the handler sent; via and uv are history fields: the path
\* generateUniqueCode returned by, and whether a uniqueness constraint
\* rejected the write.
AllocIdle == [op |-> "", pc |-> "idle", uid |-> 1, ens |-> FALSE, i |-> 0,
              code |-> <<>>, via |-> "", pend |-> FALSE, uv |-> FALSE,
              ret |-> <<>>, out |-> "", reply |-> ""]

InitDbStart == [pc |-> "select", todo |-> {}, uid |-> 1, i |-> 0, code |-> <<>>,
                via |-> "", uv |-> FALSE]

CodeExistsNever(c) == FALSE

\* SELECT 1 FROM members WHERE my_code=$1 returns a row
CodeExists(c) == \E u \in Users : members[u].present /\ members[u].my_code = c

UniqueNotEnforced(c, u) == FALSE

\* my_code TEXT UNIQUE: another committed row holds the value
UniqueViolation(c, u) ==
  \E v \in Users \ {u} : members[v].present /\ members[v].my_code = c

\* a write of my_code = c (for row u when ins) waits while another
\* transaction holds an uncommitted row with the same key
WriteBlocked(p, u, c, ins) ==
  \E q \in Procs \ {p} :
    alloc[q].pend /\ (alloc[q].code = c \/ (ins /\ alloc[q].uid = u))

RowAbsentNever(row) == FALSE

\* !q.rows.length
RowAbsent(row) == ~row.present

\* the reply after ensureCodeFormat returned code: handleMyCode asks an
\* unknown user to register first, handleRegister reports the membership
EnsureReply(op, code) ==
  IF op = "mycode"
    THEN (IF code = NullCode \/ code = <<>> THEN "register-first" ELSE "your-code")
    ELSE "already-member"

ConformingByLength(current) == current # NullCode /\ Len(current) > 0

\* current && CODE_REGEX.test(current)
Conforming(current) ==
  current # NullCode /\ current # <<>> /\ CODE_REGEX_test(current)

\* my_code IS NULL OR my_code !~ '^[A-Z][0-9]{6}$'
NeedFix == {u \in Users : members[u].present /\
              (members[u].my_code = NullCode \/ ~CODE_REGEX_test(members[u].my_code))}

\* one iteration of the loop of generateUniqueCode, for the handler or
\* repair state h: candidate (r, ds); on the sixth collision the fallback
\* (r2, ds2) is returned unchecked
GenStep(h, r, ds, r2, ds2) ==
  LET c == randomCodeAZ6(r, ds) IN
    IF ~CodeExists(c)
      THEN [h EXCEPT !.pc = "write", !.code = c, !.via = "checked", !.i = 0]
    ELSE IF h.i + 1 < MaxAttempts
      THEN [h EXCEPT !.i = h.i + 1]
    ELSE [h EXCEPT !.pc = "write", !.code = Fallback("screening", r2, ds2),
                   !.via = "fallback", !.i = 0]

AllocInit ==
  /\ members \in {m \in [Users -> {NoMember} \cup
                          {[NoMember EXCEPT !.present = TRUE, !.my_code = c] :
                             c \in UNION {LegacyCodes(u) : u \in Users}}] :
                    /\ m[1].present
                    /\ \A u \in Users : m[u].present => m[u].my_code \in LegacyCodes(u)}
  /\ alloc = [p \in Procs |-> AllocIdle]
  /\ initdb = InitDbStart

\* the screening build's allocator is not running
AllocOff ==
  /\ members = [u \in Users |-> NoMember]
  /\ alloc = [p \in Procs |-> AllocIdle]
  /\ initdb = InitDbStart

AllocFrame == UNCHANGED <<invVars, scrVars, calc>>

\* /register or the register button (handleRegister), /mycode or its button
\* (handleMyCode)
AllocStart(p, u, op) ==
  /\ alloc[p].pc = "idle"
  /\ alloc' = [alloc EXCEPT ![p] =
       [AllocIdle EXCEPT !.op = op, !.uid = u,
                         !.pc = IF op = "register" THEN "exist" ELSE "ensure",
                         !.ens = (op = "mycode")]]
  /\ UNCHANGED <<members, initdb, faults>> /\ AllocFrame

\* handleRegister: SELECT my_code FROM members WHERE tg_id=$1; a member is
\* sent to ensureCodeFormat, anyone else to BEGIN and generateUniqueCode
RegisterExist(p) ==
  /\ alloc[p].pc = "exist"
  /\ IF members[alloc[p].uid].present
       THEN alloc' = [alloc EXCEPT ![p].pc = "ensure", ![p].ens = TRUE]
       ELSE alloc' = [alloc EXCEPT ![p].pc = "gen"]
  /\ UNCHANGED <<members, initdb, faults>> /\ AllocFrame

\* ensureCodeFormat: the SELECT, then return null, return the conforming
\* code, or go on to generateUniqueCode
EnsureSelect(p) ==
  /\ alloc[p].pc = "ensure"
  /\ LET row == members[alloc[p].uid] IN
       IF RowAbsent(row)
         THEN alloc' = [alloc EXCEPT ![p].pc = "done", ![p].ret = NullCode,
                                     ![p].out = "norow",
                                     ![p].reply = EnsureReply(alloc[p].op, NullCode)]
       ELSE IF Conforming(row.my_code)
         THEN alloc' = [alloc EXCEPT ![p].pc = "done", ![p].ret = row.my_code,
                                     ![p].out = "current",
                                     ![p].reply = EnsureReply(alloc[p].op, row.my_code)]
       ELSE alloc' = [alloc EXCEPT ![p].pc = "gen"]
  /\ UNCHANGED <<members, initdb, faults>> /\ AllocFrame

\* generateUniqueCode called by a handler: one existence query
GenTry(p, r, ds, r2, ds2) ==
  /\ alloc[p].pc = "gen"
  /\ alloc' = [alloc EXCEPT ![p] = GenStep(alloc[p], r, ds, r2, ds2)]
  /\ UNCHANGED <<members, initdb, faults>> /\ AllocFrame

\* handleRegister: INSERT INTO members inside the transaction
RegisterInsert(p) ==
  /\ alloc[p].pc = "write" /\ ~alloc[p].ens
  /\ ~WriteBlocked(p, alloc[p].uid, alloc[p].code, TRUE)
  /\ IF members[alloc[p].uid].present \/ UniqueViolation(alloc[p].code, alloc[p].uid)
       THEN alloc' = [alloc EXCEPT ![p].pc = "rollback",
                        ![p].uv = UniqueViolation(alloc[p].code, alloc[p].uid)]
       ELSE alloc' = [alloc EXCEPT ![p].pc = "commit", ![p].pend = TRUE]
  /\ UNCHANGED <<members, initdb, faults>> /\ AllocFrame

\* handleRegister: COMMIT, then the reply with the code
RegisterCommit(p) ==
  /\ alloc[p].pc = "commit"
  /\ members' = [members EXCEPT ![alloc[p].uid] =
                   [present |-> TRUE, my_code |-> alloc[p].code,
                    screening_status |-> "pending"]]
  /\ alloc' = [alloc EXCEPT ![p].pc = "done", ![p].pend = FALSE,
                            ![p].code = <<>>, ![p].via = "",
                            ![p].ret = alloc[p].code, ![p].out = "ok",
                            ![p].reply = "registered"]
  /\ UNCHANGED <<initdb, faults>> /\ AllocFrame

\* handleRegister: the INSERT or the COMMIT fails in storage
RegisterFail(p) ==
  /\ \/ alloc[p].pc = "write" /\ ~alloc[p].ens
     \/ alloc[p].pc = "commit"
  /\ faults < MaxFaults
  /\ faults' = faults + 1
  /\ alloc' = [alloc EXCEPT ![p].pc = "rollback"]
  /\ UNCHANGED <<members, initdb>> /\ AllocFrame

\* handleRegister: catch, ROLLBACK, the generic reply
RegisterRollback(p) ==
  /\ alloc[p].pc = "rollback"
  /\ alloc' = [alloc EXCEPT ![p].pc = "done", ![p].pend = FALSE,
                            ![p].code = <<>>, ![p].via = "", ![p].out = "error",
                            ![p].reply = "register-error"]
  /\ UNCHANGED <<members, initdb, faults>> /\ AllocFrame

\* ensureCodeFormat: UPDATE members SET my_code=$1 WHERE tg_id=$2, return
\* newCode; a rejected UPDATE throws out of the handler
EnsureUpdate(p) ==
  /\ alloc[p].pc = "write" /\ alloc[p].ens
  /\ ~WriteBlocked(p, alloc[p].uid, alloc[p].code, FALSE)
  /\ IF UniqueViolation(alloc[p].code, alloc[p].uid)
       THEN /\ alloc' = [alloc EXCEPT ![p].pc = "done", ![p].uv = TRUE,
                                      ![p].code = <<>>, ![p].via = "",
                                      ![p].out = "threw"]
            /\ UNCHANGED members
       ELSE /\ members' = [members EXCEPT ![alloc[p].uid].my_code = alloc[p].code]
            /\ alloc' = [alloc EXCEPT ![p].pc = "done", ![p].ret = alloc[p].code,
                                      ![p].code = <<>>, ![p].via = "",
                                      ![p].out = "newCode",
                                      ![p].reply = EnsureReply(alloc[p].op, alloc[p].code)]
  /\ UNCHANGED <<initdb, faults>> /\ AllocFrame

\* the handler is over
AllocEnd(p) ==
  /\ alloc[p].pc = "done"
  /\ alloc' = [alloc EXCEPT ![p] = AllocIdle]
  /\ UNCHANGED <<members, initdb, faults>> /\ AllocFrame

\* initDb: SELECT tg_id of the rows to repair, and enter the loop (the rows
\* come in no stated order)
InitDbSelect ==
  /\ initdb.pc = "select"
  /\ IF NeedFix = {}
       THEN initdb' = [initdb EXCEPT !.pc = "done"]
       ELSE \E u \in NeedFix :
              initdb' = [initdb EXCEPT !.pc = "gen", !.uid = u, !.todo = NeedFix \ {u}]
  /\ UNCHANGED <<members, alloc, faults>> /\ AllocFrame

\* initDb: generateUniqueCode for the current row, one existence query
InitDbGen(r, ds, r2, ds2) ==
  /\ initdb.pc = "gen"
  /\ initdb' = GenStep(initdb, r, ds, r2, ds2)
  /\ UNCHANGED <<members, alloc, faults>> /\ AllocFrame

\* initDb: UPDATE members SET my_code=$1 WHERE tg_id=$2, then the next row;
\* a rejected UPDATE rejects initDb
InitDbUpdate ==
  /\ initdb.pc = "write"
  /\ ~WriteBlocked(0, initdb.uid, initdb.code, FALSE)
  /\ IF UniqueViolation(initdb.code, initdb.uid)
       THEN /\ initdb' = [initdb EXCEPT !.pc = "threw", !.uv = TRUE]
            /\ UNCHANGED members
       ELSE /\ members' = [members EXCEPT ![initdb.uid].my_code = initdb.code]
            /\ IF initdb.todo = {}
                 THEN initdb' = [initdb EXCEPT !.pc = "done", !.code = <<>>, !.via = ""]
                 ELSE \E u \in initdb.todo :
                        initdb' = [initdb EXCEPT !.pc = "gen", !.uid = u, !.code = <<>>,
                                                 !.via = "", !.todo = initdb.todo \ {u}]
  /\ UNCHANGED <<alloc, faults>> /\ AllocFrame

\* the rejection of initDb is unhandled: the process exits and is started
\* again; transactions in flight are rolled back
Restart ==
  /\ initdb.pc = "threw"
  /\ initdb' = InitDbStart
  /\ alloc' = [p \in Procs |-> AllocIdle]
  /\ UNCHANGED <<members, faults>> /\ AllocFrame

AllocNext ==
  \/ \E p \in Procs, u \in Users, op \in {"register", "mycode"} : AllocStart(p, u, op)
  \/ \E p \in Procs : RegisterExist(p)
  \/ \E p \in Procs : EnsureSelect(p)
  \/ \E p \in Procs, r \in AllocLetterDraws, ds \in AllocDigitDraws,
        r2 \in AllocLetterDraws, ds2 \in AllocDigitDraws : GenTry(p, r, ds, r2, ds2)
  \/ \E p \in Procs : RegisterInsert(p)
  \/ \E p \in Procs : RegisterCommit(p)
  \/ \E p \in Procs : RegisterFail(p)
  \/ \E p \in Procs : RegisterRollback(p)
  \/ \E p \in Procs : EnsureUpdate(p)
  \/ \E p \in Procs : AllocEnd(p)
  \/ InitDbSelect
  \/ \E r \in AllocLetterDraws, ds \in AllocDigitDraws,
        r2 \in AllocLetterDraws, ds2 \in AllocDigitDraws : InitDbGen(r, ds, r2, ds2)
  \/ InitDbUpdate
  \/ Restart

(***************************************************************************)
(* Screening build, screening engine (src/unnamed/part_000 lines 142-241)  *)
(***************************************************************************)

\* SELECT * FROM screening_questions ORDER BY id ASC: the ids, in order
QuestionIds == [i \in 1..NumQuestions |-> i]

\* q_type of the catalog rows: question 2 is free text, the others are
\* multiple choice
QType(q) == IF q = 2 THEN "text" ELSE "mcq"

\* chosen_index IS NULL
NullIndex == -1

\* nextQuestion returns null
NoQuestion == 0

\* no row of screening_sessions.  by is a history field: the handler whose
\* getOrCreateSession inserted the row.
NoSession == [present |-> FALSE, id |-> 0, finished |-> FALSE, score |-> 0,
              result |-> "", by |-> ""]

\* awaitingText has no entry
NoAwait == [sessionId |-> 0, questionId |-> 0]

\* the codes the two members were registered with
CodeOf(u) == randomCodeAZ6(u - 1, [i \in 1..6 |-> 0])

\* '/members' and '/findcode': in the screening build bot.command('members')
\* and bot.command('findcode') are registered after bot.on('text'), whose
\* handler never calls next, so these texts are handled by bot.on('text')
MembersCommand == <<47, 109, 101, 109, 98, 101, 114, 115>>
FindcodeCommand == <<47, 102, 105, 110, 100, 99, 111, 100, 101>>
AdminCommandTexts == {MembersCommand, FindcodeCommand}

\* texts a user sends: a code as stored, a code in lower case, other text,
\* an admin command
Texts == {CodeOf(u) : u \in Users} \cup {ToLowerCase(CodeOf(1)), <<104, 105>>}
           \cup AdminCommandTexts

\* a request slot with no screening handler in flight.  ans0 and fin0 are
\* history fields: the questions answered in the member's session when the
\* update arrived, and whether the session was then finished with its grade
\* mirrored onto the member row.
ScrIdle == [op |-> "", pc |-> "idle", uid |-> 1, sid |-> 0, qid |-> 0,
            chosen |-> NullIndex, q |-> NoQuestion, ans0 |-> {}, fin0 |-> FALSE,
            score |-> 0, out |-> ""]

\* ansSet of nextQuestion: the question ids answered in the session
AnsweredIn(rows, sid) ==
  {rows[i].question_id : i \in {j \in DOMAIN rows : rows[j].session_id = sid}}

NextQuestionFirst(rows, sid) == QuestionIds[1]

NextQuestionLargest(rows, sid) ==
  LET open == {i \in DOMAIN QuestionIds : QuestionIds[i] \notin AnsweredIn(rows, sid)}
  IN  IF open = {} THEN NoQuestion
      ELSE QuestionIds[CHOOSE i \in open : \A j \in open : i >= j]

\* nextQuestion: qs.find(q => !ansSet.has(q.id)) || null
NextQuestion(rows, sid) ==
  LET open == {i \in DOMAIN QuestionIds : QuestionIds[i] \notin AnsweredIn(rows, sid)}
  IN  IF open = {} THEN NoQuestion
      ELSE QuestionIds[CHOOSE i \in open : \A j \in open : i <= j]

RECURSIVE SumScore(_, _)
\* COALESCE(SUM(chosen_index+1),0) over the rows of the session: rows with a
\* NULL chosen_index add nothing
SumScore(rows, sid) ==
  IF rows = <<>> THEN 0
  ELSE LET r == Head(rows) IN
         (IF r.session_id = sid /\ r.chosen_index # NullIndex
            THEN r.chosen_index + 1 ELSE 0)
         + SumScore(Tail(rows), sid)

\* screening_answers has no unique index on (session_id, question_id): the
\* serial id is its only key, so ON CONFLICT DO NOTHING never skips a row
AnswerConflict(rows, row) == FALSE

\* INSERT INTO screening_answers ... ON CONFLICT DO NOTHING
InsertAnswer(rows, row) ==
  IF AnswerConflict(rows, row) THEN rows ELSE Append(rows, row)

\* id BIGSERIAL of screening_sessions
NextSessionId == 1 + Cardinality({u \in Users : screening_sessions[u].present})

\* the answers of the member's session when an update arrives
AnsweredNow(u) ==
  IF screening_sessions[u].present
    THEN AnsweredIn(screening_answers, screening_sessions[u].id)
    ELSE {}

\* the session of u is finished and members.screening_status holds its grade
FinishedAndMirrored(u) ==
  /\ screening_sessions[u].present
  /\ screening_sessions[u].finished
  /\ members[u].screening_status = screening_sessions[u].result

ScrInit ==
  /\ screening_sessions = [u \in Users |-> NoSession]
  /\ screening_answers = <<>>
  /\ awaitingText = [u \in Users |-> NoAwait]
  /\ scr = [p \in Procs |-> ScrIdle]
  /\ sent = [u \in Users |-> [q \in 1..NumQuestions |-> 0]]
  /\ events = 0

\* the screening engine is not running
ScrOff == ScrInit

\* the values of screening_status that startScreeningWithCode treats as
\* terminal; no statement of the program writes them
TerminalStatuses == {"passed", "failed"}

\* member 1 is registered and pending; user 2 is not registered, or is
\* registered and pending or carrying a terminal status; the codes conform
MembersRegistered ==
  /\ \/ members = [u \in Users |->
                     IF u = 1
                       THEN [NoMember EXCEPT !.present = TRUE, !.my_code = CodeOf(u)]
                       ELSE NoMember]
     \/ \E st \in {"pending"} \cup TerminalStatuses :
          members = [u \in Users |->
                       [present |-> TRUE, my_code |-> CodeOf(u),
                        screening_status |-> IF u = 1 THEN "pending" ELSE st]]
  /\ alloc = [p \in Procs |-> AllocIdle]
  /\ initdb = InitDbStart

ScrFrame == UNCHANGED <<invVars, alloc, initdb, faults, calc>>

\* getOrCreateSession, the SELECT: the session id, or go on to the INSERT
SessionSelect(h, u, after) ==
  IF screening_sessions[u].present
    THEN [h EXCEPT !.sid = screening_sessions[u].id, !.pc = after]
    ELSE [h EXCEPT !.pc = "mksess"]

StartReplyNoGate(row) ==
  IF ~row.present THEN "register-first" ELSE "ask-code"

\* startScreeningWithCode: the reply chosen from the member row
StartReply(row) ==
  IF ~row.present THEN "register-first"
  ELSE IF row.screening_status = "passed" THEN "terminal-passed"
  ELSE IF row.screening_status = "failed" THEN "terminal-failed"
  ELSE "ask-code"

\* bot.hears of the start-screening button (startScreeningWithCode): one
\* SELECT of the member row and one reply
ScrStartScreening(p, u) ==
  /\ scr[p].pc = "idle"
  /\ scr' = [scr EXCEPT ![p] =
       [ScrIdle EXCEPT !.op = "start", !.uid = u, !.pc = "done",
                       !.fin0 = FinishedAndMirrored(u),
                       !.out = StartReply(members[u])]]
  /\ UNCHANGED <<members, screening_sessions, screening_answers, awaitingText, sent,
                 events>>
  /\ ScrFrame

\* bot.hears(CODE_REGEX): ignored while a free-text answer is awaited, else
\* verifyCodeAndBegin up to its checks of the member row
ScrHearsCode(p, u, text) ==
  /\ scr[p].pc = "idle"
  /\ events < MaxEvents
  /\ CODE_REGEX_test(text)
  /\ events' = events + 1
  /\ LET h == [ScrIdle EXCEPT !.op = "code", !.uid = u, !.ans0 = AnsweredNow(u),
                               !.fin0 = FinishedAndMirrored(u)]
         codeText == ToUpperCase(text)
     IN  scr' = [scr EXCEPT ![p] =
           IF awaitingText[u] # NoAwait
             THEN [h EXCEPT !.pc = "done", !.out = "ignored"]
           ELSE IF ~members[u].present
             THEN [h EXCEPT !.pc = "done", !.out = "register-first"]
           ELSE IF members[u].my_code # codeText
             THEN [h EXCEPT !.pc = "done", !.out = "mismatch"]
           ELSE IF NumQuestions = 0
             THEN [h EXCEPT !.pc = "done", !.out = "no-questions"]
           ELSE [h EXCEPT !.pc = "sess"]]
  /\ UNCHANGED <<members, screening_sessions, screening_answers, awaitingText, sent>>
  /\ ScrFrame

\* verifyCodeAndBegin: getOrCreateSession, the SELECT
ScrSessionSelect(p) ==
  /\ scr[p].pc = "sess"
  /\ scr' = [scr EXCEPT ![p] = SessionSelect(scr[p], scr[p].uid, "next")]
  /\ UNCHANGED <<members, screening_sessions, screening_answers, awaitingText, sent,
                 events>>
  /\ ScrFrame

SessionUniqueNotEnforced(u) == FALSE

\* UNIQUE (tg_id) of screening_sessions: the member has a row already
SessionUniqueViolation(u) == screening_sessions[u].present

\* tg_id BIGINT NOT NULL REFERENCES members(tg_id): no such member
SessionForeignKeyViolation(u) == ~members[u].present

\* getOrCreateSession, the INSERT: UNIQUE (tg_id) rejects a second row and
\* the foreign key a row of a non-member, and the error leaves the handler
\* (the callback handler catches it)
ScrSessionInsert(p) ==
  /\ scr[p].pc = "mksess"
  /\ IF SessionUniqueViolation(scr[p].uid) \/ SessionForeignKeyViolation(scr[p].uid)
       THEN /\ scr' = [scr EXCEPT ![p].pc = "done",
                         ![p].out = IF scr[p].op = "callback" THEN "cb-error"
                                    ELSE "threw"]
            /\ UNCHANGED screening_sessions
       ELSE /\ screening_sessions' = [screening_sessions EXCEPT ![scr[p].uid] =
                 [NoSession EXCEPT !.present = TRUE, !.id = NextSessionId,
                                   !.by = scr[p].op]]
            /\ scr' = [scr EXCEPT ![p].sid = NextSessionId,
                         ![p].pc = IF scr[p].op = "callback" THEN "ins" ELSE "next"]
  /\ UNCHANGED <<members, screening_answers, awaitingText, sent, events>>
  /\ ScrFrame

\* the inline keyboards user u can press: those of the multiple-choice
\* questions the bot has sent, to u or in a chat u shares with the member
\* they were sent to (ctx.reply answers in the chat of the update, the
\* handlers read ctx.from.id)
ButtonVisible(u, qid) ==
  QType(qid) = "mcq" /\ \E v \in Users : sent[v][qid] > 0

\* bot.on('callback_query') with data ans:<qid>:<chosen>, a button of a
\* question sent earlier: getOrCreateSession, the SELECT
CallbackQuery(p, u, qid, chosen) ==
  /\ scr[p].pc = "idle"
  /\ ButtonVisible(u, qid)
  /\ scr' = [scr EXCEPT ![p] =
       SessionSelect([ScrIdle EXCEPT !.op = "callback", !.uid = u, !.qid = qid,
                                     !.chosen = chosen, !.ans0 = AnsweredNow(u),
                                     !.fin0 = FinishedAndMirrored(u)],
                     u, "ins")]
  /\ UNCHANGED <<members, screening_sessions, screening_answers, awaitingText, sent>>
  /\ ScrFrame

\* a button press by any user who sees the keyboard, counted as an update
ScrCallback(p, u, qid, chosen) ==
  /\ events < MaxEvents
  /\ events' = events + 1
  /\ CallbackQuery(p, u, qid, chosen)

\* the callback handler: INSERT INTO screening_answers(session_id,
\* question_id, chosen_index, is_correct) ... ON CONFLICT DO NOTHING
ScrAnswerInsert(p) ==
  /\ scr[p].pc = "ins"
  /\ screening_answers' = InsertAnswer(screening_answers,
       [session_id |-> scr[p].sid, question_id |-> scr[p].qid,
        chosen_index |-> scr[p].chosen])
  /\ scr' = [scr EXCEPT ![p].pc = "next"]
  /\ UNCHANGED <<members, screening_sessions, awaitingText, sent, events>>
  /\ ScrFrame

\* bot.on('text'), a text that is no code: without an awaitingText entry it
\* is ignored, else the entry is deleted and the answer is to be inserted
OnText(p, u, text) ==
  /\ scr[p].pc = "idle"
  /\ ~CODE_REGEX_test(text)
  /\ LET st == awaitingText[u]
         h == [ScrIdle EXCEPT !.op = "text", !.uid = u, !.ans0 = AnsweredNow(u),
                              !.fin0 = FinishedAndMirrored(u)]
     IN  IF st = NoAwait
           THEN /\ scr' = [scr EXCEPT ![p] = [h EXCEPT !.pc = "done", !.out = "ignored"]]
                /\ UNCHANGED awaitingText
           ELSE /\ awaitingText' = [awaitingText EXCEPT ![u] = NoAwait]
                /\ scr' = [scr EXCEPT ![p] =
                     [h EXCEPT !.pc = "instext", !.sid = st.sessionId,
                               !.qid = st.questionId]]
  /\ UNCHANGED <<members, screening_sessions, screening_answers, sent>>
  /\ ScrFrame

\* a text message by any user, counted as an update
ScrText(p, u, text) ==
  /\ events < MaxEvents
  /\ events' = events + 1
  /\ OnText(p, u, text)

\* the text handler: INSERT INTO screening_answers(session_id, question_id,
\* answer_text, is_correct)
ScrTextInsert(p) ==
  /\ scr[p].pc = "instext"
  /\ screening_answers' = Append(screening_answers,
       [session_id |-> scr[p].sid, question_id |-> scr[p].qid,
        chosen_index |-> NullIndex])
  /\ scr' = [scr EXCEPT ![p].pc = "next"]
  /\ UNCHANGED <<members, screening_sessions, awaitingText, sent, events>>
  /\ ScrFrame

\* the callback handler's INSERT fails in the store: the catch block logs
\* and answers the callback query with the error text
ScrAnswerInsertFail(p) ==
  /\ scr[p].pc = "ins"
  /\ faults < MaxFaults
  /\ faults' = faults + 1
  /\ scr' = [scr EXCEPT ![p].pc = "done", ![p].out = "cb-error"]
  /\ UNCHANGED <<members, screening_sessions, screening_answers, awaitingText, sent,
                 events>>
  /\ UNCHANGED <<invVars, alloc, initdb, calc>>

\* the text handler's INSERT fails in the store: the handler has no catch
\* block, the error leaves it and nothing is sent to the member
ScrTextInsertFail(p) ==
  /\ scr[p].pc = "instext"
  /\ faults < MaxFaults
  /\ faults' = faults + 1
  /\ scr' = [scr EXCEPT ![p].pc = "done", ![p].out = "threw"]
  /\ UNCHANGED <<members, screening_sessions, screening_answers, awaitingText, sent,
                 events>>
  /\ UNCHANGED <<invVars, alloc, initdb, calc>>

\* nextQuestion: read the answers of the session and pick the question
ScrNextQuestion(p) ==
  /\ scr[p].pc = "next"
  /\ LET q == NextQuestion(screening_answers, scr[p].sid) IN
       scr' = [scr EXCEPT ![p].q = q,
                          ![p].pc = IF q = NoQuestion THEN "score" ELSE "ask"]
  /\ UNCHANGED <<members, screening_sessions, screening_answers, awaitingText, sent,
                 events>>
  /\ ScrFrame

ScrAskNoAwait(p) ==
  /\ scr[p].pc = "ask"
  /\ sent' = [sent EXCEPT ![scr[p].uid][scr[p].q] = @ + 1]
  /\ scr' = [scr EXCEPT ![p].pc = "done", ![p].out = "asked"]
  /\ UNCHANGED <<members, screening_sessions, screening_answers, awaitingText, events>>
  /\ ScrFrame

\* askQuestion with a question: the inline keyboard of a multiple-choice
\* question, or awaitingText.set and the prompt of a free-text question
ScrAsk(p) ==
  /\ scr[p].pc = "ask"
  /\ sent' = [sent EXCEPT ![scr[p].uid][scr[p].q] = @ + 1]
  /\ awaitingText' =
       IF QType(scr[p].q) = "mcq" THEN awaitingText
       ELSE [awaitingText EXCEPT ![scr[p].uid] =
               [sessionId |-> scr[p].sid, questionId |-> scr[p].q]]
  /\ scr' = [scr EXCEPT ![p].pc = "done", ![p].out = "asked"]
  /\ UNCHANGED <<members, screening_sessions, screening_answers, events>>
  /\ ScrFrame

\* askQuestion without a question: SELECT COALESCE(SUM(chosen_index+1),0)
ScrScore(p) ==
  /\ scr[p].pc = "score"
  /\ scr' = [scr EXCEPT ![p].score = SumScore(screening_answers, scr[p].sid),
                        ![p].pc = "fin1"]
  /\ UNCHANGED <<members, screening_sessions, screening_answers, awaitingText, sent,
                 events>>
  /\ ScrFrame

\* UPDATE screening_sessions SET finished_at=NOW(),score=$1,result=$2 WHERE id=$3
ScrFinishSession(p) ==
  /\ scr[p].pc = "fin1"
  /\ screening_sessions' = [u \in Users |->
       IF screening_sessions[u].present /\ screening_sessions[u].id = scr[p].sid
         THEN [screening_sessions[u] EXCEPT !.finished = TRUE, !.score = scr[p].score,
                                            !.result = Grade(scr[p].score)]
         ELSE screening_sessions[u]]
  /\ scr' = [scr EXCEPT ![p].pc = "fin2"]
  /\ UNCHANGED <<members, screening_answers, awaitingText, sent, events>>
  /\ ScrFrame

\* UPDATE members SET screening_status=$1 WHERE tg_id=$2, then the result
ScrFinishMember(p) ==
  /\ scr[p].pc = "fin2"
  /\ members' = [members EXCEPT ![scr[p].uid].screening_status = Grade(scr[p].score)]
  /\ scr' = [scr EXCEPT ![p].pc = "done", ![p].out = "result"]
  /\ UNCHANGED <<screening_sessions, screening_answers, awaitingText, sent, events>>
  /\ ScrFrame

\* UPDATE members SET screening_status fails in the store after the session
\* row was written: the two updates are separate statements outside any
\* transaction, and only the callback handler catches the error
ScrFinishMemberFail(p) ==
  /\ scr[p].pc = "fin2"
  /\ faults < MaxFaults
  /\ faults' = faults + 1
  /\ scr' = [scr EXCEPT ![p].pc = "done",
               ![p].out = IF scr[p].op = "callback" THEN "cb-error" ELSE "threw"]
  /\ UNCHANGED <<members, screening_sessions, screening_answers, awaitingText, sent,
                 events>>
  /\ UNCHANGED <<invVars, alloc, initdb, calc>>

\* the handler is over
ScrEnd(p) ==
  /\ scr[p].pc = "done"
  /\ scr' = [scr EXCEPT ![p] = ScrIdle]
  /\ UNCHANGED <<members, screening_sessions, screening_answers, awaitingText, sent,
                 events>>
  /\ ScrFrame

ScrNext ==
  \/ \E p \in Procs, u \in Users : ScrStartScreening(p, u)
  \/ \E p \in Procs, u \in Users, t \in Texts : ScrHearsCode(p, u, t)
  \/ \E p \in Procs : ScrSessionSelect(p)
  \/ \E p \in Procs : ScrSessionInsert(p)
  \/ \E p \in Procs, u \in Users, q \in 1..NumQuestions, c \in 0..MaxOption :
       ScrCallback(p, u, q, c)
  \/ \E p \in Procs : ScrAnswerInsert(p)
  \/ \E p \in Procs, u \in Users, t \in Texts : ScrText(p, u, t)
  \/ \E p \in Procs : ScrTextInsert(p)
  \/ \E p \in Procs : ScrNextQuestion(p)
  \/ \E p \in Procs : ScrAsk(p)
  \/ \E p \in Procs : ScrScore(p)
  \/ \E p \in Procs : ScrFinishSession(p)
  \/ \E p \in Procs : ScrFinishMember(p)
  \/ \E p \in Procs : ScrEnd(p)

(***************************************************************************)
(* The screening engine with members who answer what they are asked        *)
(***************************************************************************)

\* a free-text answer that is neither a code nor a command
PlainText == <<104, 105>>

\* a user without a session sends the code of their registration
LiveCode(p, u) ==
  /\ ~screening_sessions[u].present
  /\ ScrHearsCode(p, u, CodeOf(u))

\* the member presses a button of a multiple-choice question the engine
\* asked them, while their session has no answer row for it
LivePress(p, u, qid, chosen) ==
  /\ sent[u][qid] > 0
  /\ qid \notin AnsweredNow(u)
  /\ CallbackQuery(p, u, qid, chosen)
  /\ UNCHANGED events

\* the member writes the answer to the free-text question the engine awaits
LiveWrite(p, u) ==
  /\ awaitingText[u] # NoAwait
  /\ OnText(p, u, PlainText)
  /\ UNCHANGED events

\* the member answers a question the engine asked
LiveAnswer(u) ==
  \/ \E p \in Procs, qid \in 1..NumQuestions, chosen \in 0..MaxOption :
       LivePress(p, u, qid, chosen)
  \/ \E p \in Procs : LiveWrite(p, u)

\* the next awaited statement of the handler in slot p
ScrStep(p) ==
  \/ ScrSessionSelect(p)
  \/ ScrSessionInsert(p)
  \/ ScrAnswerInsert(p)
  \/ ScrTextInsert(p)
  \/ ScrNextQuestion(p)
  \/ ScrAsk(p)
  \/ ScrScore(p)
  \/ ScrFinishSession(p)
  \/ ScrFinishMember(p)
  \/ ScrEnd(p)

LiveNext ==
  \/ \E p \in Procs, u \in Users : LiveCode(p, u)
  \/ \E p \in Procs, u \in Users, qid \in 1..NumQuestions, chosen \in 0..MaxOption :
       LivePress(p, u, qid, chosen)
  \/ \E p \in Procs, u \in Users : LiveWrite(p, u)
  \/ \E p \in Procs : ScrSessionSelect(p)
  \/ \E p \in Procs : ScrSessionInsert(p)
  \/ \E p \in Procs : ScrAnswerInsert(p)
  \/ \E p \in Procs : ScrTextInsert(p)
  \/ \E p \in Procs : ScrNextQuestion(p)
  \/ \E p \in Procs : ScrAsk(p)
  \/ \E p \in Procs : ScrScore(p)
  \/ \E p \in Procs : ScrFinishSession(p)
  \/ \E p \in Procs : ScrFinishMember(p)
  \/ \E p \in Procs : ScrEnd(p)

\* the same engine with answer inserts that may fail in the store
ErrNext ==
  \/ \E p \in Procs, u \in Users : LiveCode(p, u)
  \/ \E p \in Procs, u \in Users, qid \in 1..NumQuestions, chosen \in 0..MaxOption :
       LivePress(p, u, qid, chosen)
  \/ \E p \in Procs, u \in Users : LiveWrite(p, u)
  \/ \E p \in Procs : ScrSessionSelect(p)
  \/ \E p \in Procs : ScrSessionInsert(p)
  \/ \E p \in Procs : ScrAnswerInsert(p)
  \/ \E p \in Procs : ScrAnswerInsertFail(p)
  \/ \E p \in Procs : ScrTextInsert(p)
  \/ \E p \in Procs : ScrTextInsertFail(p)
  \/ \E p \in Procs : ScrNextQuestion(p)
  \/ \E p \in Procs : ScrAsk(p)
  \/ \E p \in Procs : ScrScore(p)
  \/ \E p \in Procs : ScrFinishSession(p)
  \/ \E p \in Procs : ScrFinishMember(p)
  \/ \E p \in Procs : ScrFinishMemberFail(p)
  \/ \E p \in Procs : ScrEnd(p)

\* every awaited statement of a handler completes (the pool answers and the
\* event loop resumes the handler), and a member who is asked a question
\* answers it
LiveFairness ==
  /\ \A p \in Procs : WF_vars(ScrStep(p))
  /\ \A u \in Users : SF_vars(LiveAnswer(u))

(***************************************************************************)
(* Specifications                                                          *)
(***************************************************************************)

\* the invitation-code build
InitInv == InvInit /\ AllocOff /\ ScrOff /\ faults = 0 /\ CalcOff

SpecInv == InitInv /\ [][InvNext]_vars

\* the allocator and registration of the screening build
InitAlloc == AllocInit /\ InvOff /\ ScrOff /\ faults = 0 /\ CalcOff

SpecAlloc == InitAlloc /\ [][AllocNext]_vars

\* the pure functions, applied to inputs drawn by Init
InitCalc == CalcInit /\ InvOff /\ AllocOff /\ ScrOff /\ faults = 0

SpecCalc == InitCalc /\ [][CalcNext]_vars

InitScr == ScrInit /\ MembersRegistered /\ InvOff /\ faults = 0 /\ CalcOff

\* the screening engine, for two registered members
SpecScr == InitScr /\ [][ScrNext]_vars

\* the screening engine with members who answer, under fair scheduling
\* member 1 is registered, user 2 is not
InitLive == InitScr /\ ~members[2].present
SpecLive == InitLive /\ [][LiveNext]_vars /\ LiveFairness

\* the screening engine with failing answer inserts
InitErr == InitScr /\ ~members[2].present
SpecErr == InitErr /\ [][ErrNext]_vars

(***************************************************************************)
(* Claims on the pure functions (SpecCalc)                                 *)
(***************************************************************************)

\* C5: the grade assigned at finish is a total function of the score: A when
\* score >= 40, B when 32 <= score < 40, C when 25 <= score < 32, D when
\* score < 25; 44, 35, 27 and 10 give A, B, C and D.
C5_GradeThresholds ==
  (calc.mode = "grade" /\ calc.grade # "") =>
    /\ calc.grade \in {"A", "B", "C", "D"}
    /\ (calc.score >= 40) <=> (calc.grade = "A")
    /\ (calc.score >= 32 /\ calc.score < 40) <=> (calc.grade = "B")
    /\ (calc.score >= 25 /\ calc.score < 32) <=> (calc.grade = "C")
    /\ (calc.score < 25) <=> (calc.grade = "D")
    /\ (calc.score = 44 => calc.grade = "A")
    /\ (calc.score = 35 => calc.grade = "B")
    /\ (calc.score = 27 => calc.grade = "C")
    /\ (calc.score = 10 => calc.grade = "D")

\* C5 witness: the score 35 has been graded B
C5_Witness == calc.mode = "grade" /\ calc.score = 35 /\ calc.grade = "B"

\* C8: every value generateUniqueCode returns, a checked candidate or the
\* fallback of any build, is exactly 7 characters: one letter A-Z and then
\* six digits 0-9.
C8_CodeFormat ==
  (calc.mode = "code" /\ calc.path # "") =>
    /\ Len(calc.code) = 7
    /\ calc.code[1] >= 65 /\ calc.code[1] <= 90
    /\ \A i \in 2..7 : calc.code[i] >= 48 /\ calc.code[i] <= 57

\* C8 witness: the fallback of src/server.js has returned Z followed by the
\* digits drawn second to seventh
C8_Witness ==
  /\ calc.mode = "code" /\ calc.path = "fallback" /\ calc.variant = "server"
  /\ calc.r = 25
  /\ calc.ds = <<0, 9, 9, 9, 9, 9, 0>>
  /\ calc.code = <<90, 57, 57, 57, 57, 57, 48>>

(***************************************************************************)
(* Claims on the invitation-code build (SpecInv)                           *)
(***************************************************************************)

Expired(row, t) == row.expires_at # NoExpiry /\ row.expires_at < t

HoldersIn(m, c) == {u \in Users : m[u].present /\ m[u].code_used = c}

\* two finished /register requests of distinct users for the same code, both
\* arrived while its used_count was 0
C1_Pair(p, q) ==
  /\ p # q
  /\ reg[p].pc = "done" /\ reg[q].pc = "done"
  /\ reg[p].uid # reg[q].uid
  /\ reg[p].code = reg[q].code
  /\ reg[p].used0 = 0 /\ reg[q].used0 = 0
  /\ CodePresent(reg[p].code)
  /\ membership_codes[reg[p].code].allowed_uses = 1

\* C1: two distinct non-member users concurrently redeem the same active,
\* unexpired code with allowed_uses 1 and used_count 0: exactly one
\* redemption commits (one member row, used_count 1), the other gets the
\* capacity-exhausted reply; two successes are never reachable.  (Requests
\* that hit a storage failure or whose user is already a member are outside
\* the claim.)
C1_OneRedemption ==
  \A p, q \in Procs :
    C1_Pair(p, q) =>
      LET c == reg[p].code
          row == membership_codes[c]
          replies == {reg[p].reply, reg[q].reply}
      IN  /\ replies # {"ok"}
          /\ (row.active /\ ~Expired(row, now)
                /\ replies \cap {"error", "already"} = {})
             => /\ replies = {"ok", "full"}
                /\ row.used_count = 1
                /\ Cardinality(HoldersIn(inv_members, c)) = 1
                /\ HoldersIn(inv_members, c) \subseteq {reg[p].uid, reg[q].uid}

\* C1 witness: both requests are over, one redeemed the code and the other
\* was told its capacity is exhausted
C1_Witness ==
  \E p, q \in Procs :
    /\ C1_Pair(p, q)
    /\ reg[p].reply = "ok" /\ reg[q].reply = "full"
    /\ membership_codes[reg[p].code].active

\* C6: once /revoke has set active to FALSE, no /register with that code
\* succeeds, adds a member row or changes used_count; the revoke itself
\* changes no member row and no used_count, so earlier redeemers stay
\* members.
C6_RevokeClosesCode ==
  [][ /\ \A c \in CodeSpace :
           (membership_codes[c].present /\ ~membership_codes[c].active) =>
             /\ membership_codes'[c] = membership_codes[c]
             /\ HoldersIn(inv_members', c) = HoldersIn(inv_members, c)
      /\ \A p \in Procs :
           (reg[p].pc # "done" /\ reg'[p].pc = "done" /\ reg'[p].reply = "ok") =>
             membership_codes[reg[p].code].active
      /\ (\E c \in CodeSpace : membership_codes[c].active /\ ~membership_codes'[c].active) =>
           /\ inv_members' = inv_members
           /\ \A c \in CodeSpace :
                membership_codes'[c].used_count = membership_codes[c].used_count
    ]_vars

\* C6 witness: a /register with a revoked code has been rejected as inactive
\* while an earlier redeemer of that code is still a member
C6_Witness ==
  \E p \in Procs :
    /\ reg[p].pc = "done" /\ reg[p].reply = "inactive"
    /\ CodePresent(reg[p].code)
    /\ ~membership_codes[reg[p].code].active
    /\ membership_codes[reg[p].code].used_count = 1
    /\ HoldersIn(inv_members, reg[p].code) # {}

(***************************************************************************)
(* Claims on the allocator of the screening build (SpecAlloc)              *)
(***************************************************************************)

\* one letter A-Z followed by six digits 0-9
IsLetterSixDigits(s) ==
  /\ Len(s) = 7
  /\ s[1] >= 65 /\ s[1] <= 90
  /\ \A i \in 2..7 : s[i] >= 48 /\ s[i] <= 57

\* some member row holds the code
HeldByMember(c) == \E u \in Users : members[u].present /\ members[u].my_code = c

C9_CodesUnique ==
  \A u, v \in Users :
    (u # v /\ members[u].present /\ members[v].present
       /\ members[u].my_code # NullCode) =>
      members[u].my_code # members[v].my_code

\* C9 witness: a write of an allocated code was rejected because the code was
\* already in use, and two members hold generated codes
C9_Witness ==
  /\ \E p \in Procs : alloc[p].uv
  /\ \A u \in Users : members[u].present /\ IsLetterSixDigits(members[u].my_code)

\* the ensureCodeFormat call of slot p executes its SELECT on a stored
\* conforming code
C10_ReadsConforming(p) ==
  /\ alloc[p].pc = "ensure"
  /\ alloc'[p].pc \notin {"ensure", "idle"}
  /\ members[alloc[p].uid].present
  /\ IsLetterSixDigits(members[alloc[p].uid].my_code)

\* the ensureCodeFormat call of slot p ends after its UPDATE
C10_EndsRepair(p) ==
  alloc[p].ens /\ alloc[p].pc = "write" /\ alloc'[p].pc = "done"

\* a call that finds a conforming code returns it and writes nothing
C10_NoWriteOnceConforming ==
  \A p \in Procs :
    C10_ReadsConforming(p) =>
      /\ members' = members
      /\ alloc'[p].pc = "done"
      /\ alloc'[p].ret = members[alloc[p].uid].my_code

\* a call that returns the code it read returns a conforming code
C10_ReturnsConforming ==
  \A p \in Procs :
    (alloc[p].pc = "ensure" /\ alloc'[p].pc = "done" /\ alloc'[p].out = "current")
    => /\ IsLetterSixDigits(alloc'[p].ret)
       /\ alloc'[p].ret = members'[alloc[p].uid].my_code

\* C10 as stated: idempotent once a conforming code is present, and every
\* call on a non-conforming or missing code leaves a conforming code stored
\* and returns it.
C10_Original ==
  [][ /\ C10_NoWriteOnceConforming
      /\ C10_ReturnsConforming
      /\ \A p \in Procs :
           C10_EndsRepair(p) =>
             /\ IsLetterSixDigits(members'[alloc[p].uid].my_code)
             /\ alloc'[p].ret = members'[alloc[p].uid].my_code
    ]_vars

\* C10 amended: idempotent once a conforming code is present; a call on a
\* non-conforming or missing code that returns leaves a conforming code
\* stored and returns it; when the UNIQUE constraint rejects its UPDATE the
\* call throws and the members table is unchanged.
C10_EnsureCodeFormat ==
  [][ /\ C10_NoWriteOnceConforming
      /\ C10_ReturnsConforming
      /\ \A p \in Procs :
           C10_EndsRepair(p) =>
             IF alloc'[p].out = "threw"
               THEN members' = members /\ HeldByMember(alloc[p].code)
               ELSE /\ IsLetterSixDigits(members'[alloc[p].uid].my_code)
                    /\ alloc'[p].ret = members'[alloc[p].uid].my_code
    ]_vars

\* C10 witness: a call has returned the stored conforming code of a member
\* whose code had been repaired
C10_Witness ==
  \E p \in Procs :
    /\ alloc[p].pc = "done" /\ alloc[p].out = "current"
    /\ alloc[p].ret = members[alloc[p].uid].my_code
    /\ IsLetterSixDigits(alloc[p].ret)

(***************************************************************************)
(* C2, C3, C4: the screening engine                                        *)
(***************************************************************************)

\* C2 as stated: no question is sent twice to a member in their session.
\* Each member has at most one session, so sent counts per session.
C2_Original ==
  \A u \in Users : \A q \in 1..NumQuestions : sent[u][q] <= 1

\* C2: askQuestion never sends a question that was already answered in the
\* session when the update arrived, nor the question the handler itself has
\* just recorded an answer for, whatever code submissions, repeated or stale
\* callbacks and free-text replies came before.  A question sent earlier and
\* not yet answered is sent again.
C2_NoAnsweredQuestionAsked ==
  \A p \in Procs :
    scr[p].pc = "ask" =>
      /\ scr[p].q \in 1..NumQuestions
      /\ scr[p].q \notin scr[p].ans0
      /\ scr[p].op \in {"callback", "text"} => scr[p].q # scr[p].qid

\* a repeated callback, for a question answered before it arrived, is about
\* to send a question
C2_Witness ==
  \E p \in Procs :
    /\ scr[p].pc = "ask"
    /\ scr[p].op = "callback"
    /\ scr[p].qid \in scr[p].ans0
    /\ sent[scr[p].uid][scr[p].q] > 0

\* C3: screening_answers holds at most one row per (session_id,
\* question_id) pair.
C3_OneRowPerQuestion ==
  \A i, j \in DOMAIN screening_answers :
    (/\ screening_answers[i].session_id = screening_answers[j].session_id
     /\ screening_answers[i].question_id = screening_answers[j].question_id)
    => i = j

RECURSIVE C4_SumPerQuestion(_, _, _)
\* the sum of (chosen_index + 1) over the first i rows, one term per
\* answered question of the session: the first row recorded for it
C4_SumPerQuestion(rows, sid, i) ==
  IF i = 0 THEN 0
  ELSE (IF /\ rows[i].session_id = sid
           /\ rows[i].chosen_index # NullIndex
           /\ \A j \in 1..(i - 1) :
                ~(rows[j].session_id = sid /\ rows[j].question_id = rows[i].question_id)
          THEN rows[i].chosen_index + 1 ELSE 0)
       + C4_SumPerQuestion(rows, sid, i - 1)

\* C4: the score written to a finished session is the sum of
\* (chosen_index + 1) over its multiple-choice answers, one term per
\* answered question; free-text answers add nothing.
C4_ScoreIsSumOfAnswers ==
  \A u \in Users :
    screening_sessions[u].finished =>
      screening_sessions[u].score =
        C4_SumPerQuestion(screening_answers, screening_sessions[u].id,
                          Len(screening_answers))

(***************************************************************************)
(* C11: ensureCodeFormat and handleMyCode for an unknown user              *)
(***************************************************************************)

\* C11: ensureCodeFormat, when its SELECT finds no member row, returns null without throwing, allocates no code and writes nothing;
\* handleMyCode then replies 'register first'.
C11_AbsentMemberReturnsNull ==
  [][ \A p \in Procs :
        (/\ alloc[p].pc = "ensure"
         /\ ~members[alloc[p].uid].present
         /\ alloc'[p].pc \notin {"ensure", "idle"})
        => /\ alloc'[p].pc = "done"
           /\ alloc'[p].ret = NullCode
           /\ alloc'[p].out = "norow"
           /\ alloc'[p].code = <<>> /\ alloc'[p].via = ""
           /\ members' = members
           /\ alloc[p].op = "mycode" => alloc'[p].reply = "register-first"
    ]_vars

\* /mycode of a user without a member row has been answered
C11_Witness ==
  \E p \in Procs :
    /\ alloc[p].pc = "done" /\ alloc[p].op = "mycode"
    /\ alloc[p].out = "norow" /\ alloc[p].reply = "register-first"
    /\ ~members[alloc[p].uid].present

(***************************************************************************)
(* C12: the code check of verifyCodeAndBegin                               *)
(***************************************************************************)

\* C12, first sentence: a registered member without a session who submits a
\* code-format text other than their stored code gets the mismatch reply,
\* and the handler ends there: no session row, no question, no answer.
C12_MismatchRejected ==
  [][ \A p \in Procs, u \in Users, t \in Texts :
        (/\ ScrHearsCode(p, u, t)
         /\ members[u].present
         /\ ~screening_sessions[u].present
         /\ ToUpperCase(t) # members[u].my_code)
        => /\ scr'[p].pc = "done" /\ scr'[p].out = "mismatch"
           /\ screening_sessions' = screening_sessions
           /\ screening_answers' = screening_answers
           /\ sent' = sent
           /\ awaitingText' = awaitingText
    ]_vars

\* C12, second sentence: a member has a session row only after having
\* submitted their own stored code, that is, every session row was inserted
\* by verifyCodeAndBegin after its code check.
C12_SessionOnlyAfterOwnCode ==
  \A u \in Users :
    screening_sessions[u].present => screening_sessions[u].by = "code"

(***************************************************************************)
(* C13: start-screening with a terminal status                             *)
(***************************************************************************)

\* C13: when a member whose screening_status is 'passed' or 'failed' presses
\* start-screening, the handler replies with the terminal message of that
\* status and ends: no session row, no question, no request for the code.
C13_TerminalStatusRejected ==
  [][ \A p \in Procs, u \in Users :
        (/\ ScrStartScreening(p, u)
         /\ members[u].present
         /\ members[u].screening_status \in TerminalStatuses)
        => /\ scr'[p].pc = "done"
           /\ scr'[p].out = IF members[u].screening_status = "passed"
                              THEN "terminal-passed" ELSE "terminal-failed"
           /\ screening_sessions' = screening_sessions
           /\ screening_answers' = screening_answers
           /\ sent' = sent
           /\ awaitingText' = awaitingText
    ]_vars

\* a member with status 'failed' has pressed start-screening and got the
\* terminal message
C13_Witness ==
  \E p \in Procs :
    /\ scr[p].op = "start" /\ scr[p].pc = "done"
    /\ scr[p].out = "terminal-failed"
    /\ members[scr[p].uid].screening_status = "failed"
    /\ ~screening_sessions[scr[p].uid].present

(***************************************************************************)
(* C14: the mirrored grade as a terminal gate                              *)
(***************************************************************************)

\* the second half of C14 alone: a code submission that arrives after the
\* session finished and the grade was mirrored never scores the session
\* again
C14_NoRescoring ==
  \A p \in Procs :
    (scr[p].op = "code" /\ scr[p].fin0) =>
      scr[p].pc \notin {"score", "fin1", "fin2"} /\ scr[p].out # "result"

\* C14: once the session has finished and its grade is mirrored onto
\* members.screening_status, a later start-screening attempt is rejected:
\* the start button gets the terminal message, and a code submission ends
\* without a question prompt and without scoring the session again.
C14_FinishedIsTerminal ==
  /\ \A p \in Procs :
       (scr[p].op = "start" /\ scr[p].fin0) =>
         scr[p].out \in {"terminal-passed", "terminal-failed"}
  /\ \A p \in Procs :
       (scr[p].op = "code" /\ scr[p].fin0) =>
         scr[p].pc = "done" /\ scr[p].out \notin {"asked", "result"}
  /\ C14_NoRescoring

(***************************************************************************)
(* C15: one session per member                                             *)
(***************************************************************************)

\* the handler of slot p holds a session id
C15_HoldsSession(p) ==
  scr[p].pc \in {"ins", "instext", "next", "ask", "score", "fin1", "fin2"}

\* every session row belongs to a registered member, rows of different
\* members have different ids, and every handler that holds a session id
\* holds the id of its member's one row
C15_State ==
  /\ \A u \in Users : screening_sessions[u].present => members[u].present
  /\ \A u, v \in Users :
       (/\ screening_sessions[u].present /\ screening_sessions[v].present
        /\ screening_sessions[u].id = screening_sessions[v].id) => u = v
  /\ \A p \in Procs :
       C15_HoldsSession(p) =>
         /\ screening_sessions[scr[p].uid].present
         /\ scr[p].sid = screening_sessions[scr[p].uid].id

\* C15: at most one screening_sessions row per member, each of a registered
\* member; a row, once inserted, is never replaced by a second insert, so
\* of two concurrent getOrCreateSession calls of one member at most one
\* inserts and both handlers hold the same session id.
C15_OneSessionPerMember ==
  [][ /\ C15_State'
      /\ \A u \in Users :
           screening_sessions[u].present =>
             /\ screening_sessions'[u].present
             /\ screening_sessions'[u].id = screening_sessions[u].id
    ]_vars

\* two requests of one member ran getOrCreateSession with no session
\* present: one inserted the row and holds its id, the other was rejected
C15_Witness ==
  \E p, q \in Procs :
    /\ p # q /\ scr[p].uid = scr[q].uid
    /\ C15_HoldsSession(p)
    /\ scr[p].ans0 = {} /\ scr[q].ans0 = {}
    /\ scr[q].pc = "done" /\ scr[q].out \in {"threw", "cb-error"}
    /\ screening_sessions[scr[p].uid].present

(***************************************************************************)
(* C16: admin-only commands sent by other users                            *)
(***************************************************************************)

\* C16, for the screening build: /members or /findcode sent by a user who
\* is not in the admin allowlist is ignored: the handler that receives the
\* text ends at once without a reply and without a write.  (In the
\* invitation-code build /gencode, /codes, /revoke and /members return on
\* their first line for such a user: Gencode and Revoke have no step.)
C16_NonAdminCommandIgnored ==
  [][ \A p \in Procs, u \in Users, t \in AdminCommandTexts :
        (ScrText(p, u, t) /\ ~isAdmin(u))
        => /\ scr'[p].pc = "done" /\ scr'[p].out = "ignored"
           /\ awaitingText' = awaitingText
    ]_vars

(***************************************************************************)
(* C17: validation rejections of /register (invitation-code build)         *)
(***************************************************************************)

\* the replies of the five validation branches
C17_Rejections == {"already", "invalid", "inactive", "expired", "full"}

\* the branch taken is the one the rows call for, in the order of the code
C17_SpecificReply(p) ==
  /\ (RegCheckMe(p) /\ inv_members[reg[p].uid].present)
       => reg'[p].pc = "rollback" /\ reg'[p].reply = "already"
  /\ RegLock(p) =>
       LET c == reg[p].code
           row == membership_codes[c]
       IN  reg'[p].reply =
             IF ~CodePresent(c) THEN "invalid"
             ELSE IF ~row.active THEN "inactive"
             ELSE IF Expired(row, now) THEN "expired"
             ELSE IF row.used_count >= row.allowed_uses THEN "full"
             ELSE ""

\* C17: a /register that is rejected by a validation branch sends the reply
\* of that branch; none of its steps changes members or membership_codes,
\* it never holds an uncommitted write, and after its ROLLBACK it holds no
\* row lock.
C17_RejectionChangesNothing ==
  [][ \A p \in Procs :
        /\ C17_SpecificReply(p)
        /\ (reg'[p] # reg[p] /\ reg'[p].reply \in C17_Rejections)
             => /\ inv_members' = inv_members
                /\ membership_codes' = membership_codes
                /\ ~reg'[p].ins
        /\ (reg[p].pc = "rollback" /\ reg'[p].pc = "done"
              /\ reg[p].reply \in C17_Rejections)
             => /\ reg'[p].reply = reg[p].reply
                /\ ~reg'[p].locked
    ]_vars

\* a /register with an expired code has ended: the row lock it took for
\* the check is released and the code's use count is as it was
C17_Witness ==
  \E p \in Procs :
    /\ reg[p].pc = "done" /\ reg[p].reply = "expired"
    /\ ~reg[p].locked
    /\ ~inv_members[reg[p].uid].present
    /\ membership_codes[reg[p].code].used_count = reg[p].used0

(***************************************************************************)
(* C18: atomic registration (invitation-code build)                        *)
(***************************************************************************)

\* the member rows and the use counts agree: a code was used as often as
\* there are members who registered with it
C18_CountsMatchMembers ==
  \A c \in CodeSpace :
    membership_codes[c].used_count = Cardinality(HoldersIn(inv_members, c))

C19_Unanswered(sid) ==
  {q \in 1..NumQuestions :
     \A i \in DOMAIN screening_answers :
       ~(screening_answers[i].session_id = sid /\ screening_answers[i].question_id = q)}

\* C19: nextQuestion returns the catalog question with the smallest id that
\* has no answer row in the session, and null exactly when every catalog
\* question has one; the stored answers determine the result.
C19_NextQuestion ==
  [][ \A p \in Procs :
        ScrNextQuestion(p) =>
          LET open == C19_Unanswered(scr[p].sid) IN
            /\ (scr'[p].q = NoQuestion) <=> (open = {})
            /\ open # {} =>
                 /\ scr'[p].q \in open
                 /\ \A r \in open : scr'[p].q <= r
            /\ screening_answers' = screening_answers
    ]_vars

\* a retried request: nextQuestion has returned a question that was sent
\* to the member before and is still unanswered
C19_Witness ==
  \E p \in Procs :
    /\ scr[p].pc = "ask"
    /\ sent[scr[p].uid][scr[p].q] > 0
    /\ scr[p].q \in C19_Unanswered(scr[p].sid)

(***************************************************************************)
(* C20: a session whose member answers is finished                         *)
(***************************************************************************)

\* the session of u is finished with its score and result set
C20_Finished(u) ==
  /\ screening_sessions[u].present
  /\ screening_sessions[u].finished
  /\ screening_sessions[u].result \in {"A", "B", "C", "D"}
  /\ screening_sessions[u].score \in 0..(NumQuestions * (MaxOption + 1))

\* C20: a session whose member answers each question the engine asks is
\* eventually finished with score and result set, and no session is
\* finished while a catalog question has no answer row in it.
C20_SessionFinishes ==
  /\ \A u \in Users : screening_sessions[u].present ~> C20_Finished(u)
  /\ [][ \A p \in Procs :
           ScrFinishSession(p) => C19_Unanswered(scr[p].sid) = {} ]_vars

\* a session finished after answers to both kinds of question
C20_Witness ==
  \E u \in Users :
    /\ C20_Finished(u)
    /\ C19_Unanswered(screening_sessions[u].id) = {}
    /\ sent[u][1] > 0
    /\ sent[u][2] > 0

(***************************************************************************)
(* C21: the awaitingText marker                                            *)
(***************************************************************************)

\* the free-text answer rows of question q in session sid
C21_TextRows(sid, q) ==
  {i \in DOMAIN screening_answers :
     /\ screening_answers[i].session_id = sid
     /\ screening_answers[i].question_id = q
     /\ screening_answers[i].chosen_index = NullIndex}

\* the text handler clears the marker in the step that reads it, and a
\* code-format message that finds the marker set is dropped and leaves it set
C21_MarkerDiscipline ==
  [][ \A p \in Procs, u \in Users, t \in Texts :
        /\ (ScrText(p, u, t) /\ awaitingText[u] # NoAwait) =>
             /\ awaitingText'[u] = NoAwait
             /\ scr'[p].sid = awaitingText[u].sessionId
             /\ scr'[p].qid = awaitingText[u].questionId
        /\ (ScrHearsCode(p, u, t) /\ awaitingText[u] # NoAwait) =>
             /\ scr'[p].out = "ignored"
             /\ awaitingText' = awaitingText
             /\ screening_answers' = screening_answers
    ]_vars

\* C21: the marker is consumed exactly once, so two text messages of a
\* member are never both recorded as answers to the same marked question.
C21_ConsumedOnce ==
  \A u \in Users, q \in 1..NumQuestions :
    screening_sessions[u].present =>
      Cardinality(C21_TextRows(screening_sessions[u].id, q)) <= 1

(***************************************************************************)
(* C22: a failed answer insert                                             *)
(***************************************************************************)

\* on the callback path the failure is caught and answered with the error
\* text, no row is added, the session is as it was and its button can be
\* pressed again
C22_CallbackFailureCaught ==
  [][ \A p \in Procs :
        ScrAnswerInsertFail(p) =>
          /\ scr'[p].out = "cb-error"
          /\ screening_answers' = screening_answers
          /\ screening_sessions' = screening_sessions
          /\ ButtonVisible(scr[p].uid, scr[p].qid)'
    ]_vars

\* C22: when the insert of an answer fails, on the callback path or on the
\* free-text path, the member is sent a failure message, no answer row is
\* added and the session stays as it was, with the same next question.
C22_FailureSurfaced ==
  [][ \A p \in Procs :
        (ScrAnswerInsertFail(p) \/ ScrTextInsertFail(p)) =>
          /\ scr'[p].out = "cb-error"
          /\ screening_answers' = screening_answers
          /\ screening_sessions' = screening_sessions
          /\ NextQuestion(screening_answers', scr[p].sid)
               = NextQuestion(screening_answers, scr[p].sid)
    ]_vars

\* after a failed text insert the marker is gone while the question is
\* unanswered: a second text of the member is ignored
C22_MarkerLost ==
  \E p \in Procs :
    /\ scr[p].op = "text"
    /\ scr[p].out = "threw"
    /\ awaitingText[scr[p].uid] = NoAwait
    /\ scr[p].qid \in C19_Unanswered(scr[p].sid)

(***************************************************************************)
(* C23: a finished session and the member's screening_status               *)
(***************************************************************************)

\* C23: in every state a finished session has a result among A, B, C, D
\* that is the grade of its score, the member's screening_status equals that
\* result, and a member without a finished session is pending.
C23_StatusMirrorsResult ==
  \A u \in Users :
    members[u].present =>
      IF screening_sessions[u].present /\ screening_sessions[u].finished
        THEN /\ screening_sessions[u].result \in {"A", "B", "C", "D"}
             /\ screening_sessions[u].result = Grade(screening_sessions[u].score)
             /\ members[u].screening_status = screening_sessions[u].result
        ELSE members[u].screening_status = "pending"

\* with every handler over, a finished session next to a pending member:
\* the second update failed after the first was stored
C23_MismatchAtRest ==
  /\ \A p \in Procs : scr[p].pc = "idle"
  /\ \E u \in Users :
       /\ screening_sessions[u].present
       /\ screening_sessions[u].finished
       /\ members[u].screening_status = "pending"

(***************************************************************************)
(* C24: finished is terminal for a session                                 *)
(***************************************************************************)

\* the answer rows of session sid, in stored order
C24_RowsOf(rows, sid) == SelectSeq(rows, LAMBDA r : r.session_id = sid)

\* C24: a handler of an update that arrived after the member's session was
\* finished and mirrored adds no answer row to that session and changes
\* neither its score, result and finished mark nor the member's
\* screening_status.
C24_NoChangeAfterFinish ==
  [][ \A p \in Procs :
        (scr[p].fin0 /\ scr'[p] # scr[p]) =>
          LET u == scr[p].uid
              sid == screening_sessions[u].id
          IN  /\ C24_RowsOf(screening_answers', sid) = C24_RowsOf(screening_answers, sid)
              /\ screening_sessions'[u] = screening_sessions[u]
              /\ members'[u].screening_status = members[u].screening_status
    ]_vars

\* an old button pressed after the finish has changed the stored score
C24_Rescored ==
  \E p \in Procs :
    /\ scr[p].fin0
    /\ scr[p].op = "callback"
    /\ scr[p].out = "result"
    /\ screening_sessions[scr[p].uid].score > 1 + MaxOption

(***************************************************************************)
(* C25: use counts of the invitation codes                                 *)
(***************************************************************************)

\* no tg_id has two member rows: an uncommitted row never stands beside a
\* committed row or another uncommitted row of the same tg_id
C25_OneRowPerMember ==
  \A p \in Procs :
    reg[p].ins =>
      /\ ~inv_members[reg[p].uid].present
      /\ \A q \in Procs \ {p} : reg[q].ins => reg[q].uid # reg[p].uid

====
